---- MODULE Spec2Model ----
(***************************************************************************)
(* Model of publish_to_pypi.py: the interactive build-and-upload workflow  *)
(* of main(), with the helper functions it calls.  Text (prompt answers,   *)
(* captured error output, the .gitignore file) is a sequence of one-       *)
(* character strings, so that substring tests, str.lower() and             *)
(* str.endswith() are computed as Python computes them.                    *)
(***************************************************************************)
EXTENDS Integers, Sequences, FiniteSets, TLC

(* ------------------------------ bounds --------------------------------- *)

\* captured error text is a concatenation of at most MaxFrags fragments
MaxFrags == 2

(* ------------------------------ text ----------------------------------- *)

\* str.lower() on the ASCII letters; every other character is unchanged
LowerOf ==
    "A" :> "a" @@ "B" :> "b" @@ "C" :> "c" @@ "D" :> "d" @@ "E" :> "e" @@ "F" :> "f" @@
    "G" :> "g" @@ "H" :> "h" @@ "I" :> "i" @@ "J" :> "j" @@ "K" :> "k" @@ "L" :> "l" @@
    "M" :> "m" @@ "N" :> "n" @@ "O" :> "o" @@ "P" :> "p" @@ "Q" :> "q" @@ "R" :> "r" @@
    "S" :> "s" @@ "T" :> "t" @@ "U" :> "u" @@ "V" :> "v" @@ "W" :> "w" @@ "X" :> "x" @@
    "Y" :> "y" @@ "Z" :> "z"

\* str.lower() on one character
LowerChar(c) == IF c \in DOMAIN LowerOf THEN LowerOf[c] ELSE c

\* str.lower()
Lower(s) == [i \in 1..Len(s) |-> LowerChar(s[i])]

\* the Python test  p in s
Contains(s, p) ==
    \E i \in 0..(Len(s) - Len(p)) : SubSeq(s, i + 1, i + Len(p)) = p

\* s.endswith(p)
EndsWith(s, p) ==
    /\ Len(s) >= Len(p)
    /\ SubSeq(s, Len(s) - Len(p) + 1, Len(s)) = p

NL == <<"\n">>

\* the lines of a text file (split at newline characters, no empty tail)
RECURSIVE Lines(_)
Lines(s) ==
    IF s = <<>> THEN <<>>
    ELSE IF \E i \in 1..Len(s) : s[i] = "\n"
         THEN LET k == CHOOSE i \in 1..Len(s) :
                           /\ s[i] = "\n"
                           /\ \A j \in 1..(i - 1) : s[j] # "\n"
              IN  <<SubSeq(s, 1, k - 1)>> \o Lines(SubSeq(s, k + 1, Len(s)))
         ELSE <<s>>

RECURSIVE Concat(_)
Concat(ss) == IF ss = <<>> THEN <<>> ELSE Head(ss) \o Concat(Tail(ss))

(* --------------------------- literals of the code ---------------------- *)

FILE_ALREADY_EXISTS == <<"F","i","l","e"," ","a","l","r","e","a","d","y"," ","e","x","i","s","t","s">>
INVALID_CLASSIFIER == <<"i","n","v","a","l","i","d"," ","c","l","a","s","s","i","f","i","e","r">>
REQUIRED_METADATA == <<"r","e","q","u","i","r","e","d"," ","m","e","t","a","d","a","t","a">>
UNKNOWN_ERROR == <<"U","n","k","n","o","w","n"," ","e","r","r","o","r"," ","o","c","c","u","r","r","e","d">>
PYPIRC == <<".","p","y","p","i","r","c">>
YES == <<"y">>
MENU_TEST == <<"1">>

(* --------------------------- input domains ----------------------------- *)

\* what the operator may type at a y/n prompt
Answers == { <<"y">>, <<"Y">>, <<"n">> }
\* what the operator may type at the menu
Choices == { <<"1">>, <<"2">>, <<"x">> }

FragLowerExists == <<"f","i","l","e"," ","a","l","r","e","a","d","y"," ","e","x","i","s","t","s">>
FragMixedClassifier == <<"I","n","v","a","l","i","d"," ","C","l","a","s","s","i","f","i","e","r">>
FragUpperMetadata == <<"R","e","q","u","i","r","e","d"," ","M","e","t","a","d","a","t","a">>

\* pieces the upload tool's output is made of
Fragments == { FILE_ALREADY_EXISTS, FragLowerExists, FragMixedClassifier,
               FragUpperMetadata }

\* texts made of at most n fragments
\* texts made of at most n fragments
TextsUpTo(n) ==
    UNION { { Concat(fs) : fs \in [1..k -> Fragments] } : k \in 0..n }

\* what the failed upload left on <<stderr, stdout>>: text on one of them,
\* on neither, or on both
CapturedOutputs ==
    { <<e, <<>>>> : e \in TextsUpTo(MaxFrags) } \cup
    { <<<<>>, o>> : o \in { FILE_ALREADY_EXISTS, FragUpperMetadata } } \cup
    { <<FragLowerExists, FILE_ALREADY_EXISTS>> }

\* the version-control ignore files considered before the run
GitignoreContents ==
    { <<>>,
      <<"d","i","s","t","/","\n">>,
      <<"d","i","s","t","/">>,
      <<".","p","y","p","i","r","c","\n">>,
      <<"d","i","s","t","/","\n",".","p","y","p","i","r","c">>,
      <<"m","y",".","p","y","p","i","r","c",".","b","a","k","\n">> }

Gitignores ==
    { [exists |-> FALSE, content |-> <<>>] } \cup
    { [exists |-> TRUE, content |-> c] : c \in GitignoreContents }

\* what an earlier build left in dist, and what this build writes
OldArtifacts == { "pkg-0.9.tar.gz" }
NewArtifacts == { "pkg-1.0.tar.gz" }

EmptyDir == [kind |-> "dir", files |-> {}]

\* the path dist before the run: missing, a regular file, or a directory
Dists ==
    { [kind |-> "absent", files |-> {}], [kind |-> "file", files |-> {}] } \cup
    { [kind |-> "dir", files |-> fs] : fs \in SUBSET OldArtifacts }

Versions == { "", "1.0.0", "2.3.4" }

NoPyproject ==
    [exists |-> FALSE, has_version |-> FALSE, version |-> "", name |-> "pkg"]

\* pyproject.toml as get_current_version finds it: missing, without a
\* [project] version, or with one
Pyprojects ==
    { NoPyproject,
      [exists |-> TRUE, has_version |-> FALSE, version |-> "", name |-> "pkg"] } \cup
    { [exists |-> TRUE, has_version |-> TRUE, version |-> v, name |-> "pkg"] :
          v \in Versions }

None == "None"
LOCAL_PYPIRC == "/cwd/.pypirc"
Unasked == <<"(not asked)">>
NoText == <<"(no error)">>

(* --------------------------- helper functions -------------------------- *)

\* answer.lower() == 'y'
IsYes(answer) == Lower(answer) = YES

\* variant: the menu test written against the other option
resolve_repository_swapped(choice) ==
    IF choice = <<"2">> THEN "pypi" ELSE "testpypi"

\* repository = "testpypi" if choice == "1" else "pypi"
resolve_repository(choice) == IF choice = MENU_TEST THEN "testpypi" ELSE "pypi"

\* variant: the failed installation is not reported to main
check_dependencies_ignoring_failure(importable, pip_ok) == TRUE

\* check_dependencies: both imports work, or pip installs them
check_dependencies(importable, pip_ok) == importable \/ pip_ok

\* variant: the directory is created if missing but never emptied
clean_dist_directory_no_rmtree(d) ==
    IF d.kind = "file"
    THEN [raised |-> TRUE, dist |-> d]
    ELSE [raised |-> FALSE,
          dist |-> IF d.kind = "absent" THEN EmptyDir ELSE d]

\* clean_dist_directory: rmtree if the path exists, then mkdir(exist_ok=True).
\* rmtree of a regular file raises, and nothing in main catches it.
clean_dist_directory(d) ==
    IF d.kind = "file"
    THEN [raised |-> TRUE, dist |-> d]
    ELSE [raised |-> FALSE, dist |-> EmptyDir]

\* the .gitignore part of create_local_pypirc
update_gitignore(g) ==
    IF g.exists
    THEN IF ~Contains(g.content, PYPIRC)
         THEN [exists |-> TRUE,
               content |-> g.content
                           \o (IF ~EndsWith(g.content, NL) THEN NL ELSE <<>>)
                           \o PYPIRC \o NL]
         ELSE g
    ELSE [exists |-> TRUE, content |-> PYPIRC \o NL]

\* variant: the lookup reads the name key, as get_package_name does
get_current_version_reads_name(pp, toml_ok) ==
    IF ~toml_ok THEN None
    ELSE IF ~pp.exists THEN None
    ELSE pp.name

\* get_current_version: None if import toml fails (the file is then never
\* opened) or the file is missing, else data.get("project", {}).get("version")
get_current_version(pp, toml_ok) ==
    IF ~toml_ok THEN None
    ELSE IF ~pp.exists THEN None
    ELSE IF pp.has_version THEN pp.version ELSE None

\* Python truthiness of the value get_current_version returns
Truthy(v) == v # None /\ v # ""

\* variant: the help is printed but the function returns instead of exiting
show_version_conflict_help_returns(pp, toml_ok) ==
    LET current_version == get_current_version(pp, toml_ok)
    IN  [exits |-> FALSE, code |-> 0,
         version_line |-> IF Truthy(current_version)
                          THEN <<"Current version: ", current_version>>
                          ELSE <<>>]

\* show_version_conflict_help: prints the version line if there is a version,
\* then sys.exit(1)
show_version_conflict_help(pp, toml_ok) ==
    LET current_version == get_current_version(pp, toml_ok)
    IN  [exits |-> TRUE, code |-> 1,
         version_line |-> IF Truthy(current_version)
                          THEN <<"Current version: ", current_version>>
                          ELSE <<>>]

\* show_auth_instructions: prints the instructions, then sys.exit(1)
show_auth_instructions == [exits |-> TRUE, code |-> 1]

\* variant: the classifier test comes before the version-conflict test
handle_upload_error_reordered(error_output, pp, toml_ok) ==
    IF Contains(Lower(error_output), INVALID_CLASSIFIER)
    THEN [class |-> "invalid-metadata-field", exits |-> TRUE, code |-> 1,
          version_line |-> <<>>, raw |-> NoText, read_version |-> FALSE]
    ELSE IF Contains(error_output, FILE_ALREADY_EXISTS)
    THEN LET h == show_version_conflict_help(pp, toml_ok)
         IN  [class |-> "version-conflict", exits |-> h.exits, code |-> h.code,
              version_line |-> h.version_line, raw |-> NoText,
              read_version |-> TRUE]
    ELSE IF Contains(Lower(error_output), REQUIRED_METADATA)
    THEN [class |-> "missing-required-metadata", exits |-> TRUE, code |-> 1,
          version_line |-> <<>>, raw |-> NoText, read_version |-> FALSE]
    ELSE [class |-> "unknown", exits |-> TRUE, code |-> 1,
          version_line |-> <<>>, raw |-> error_output, read_version |-> FALSE]

\* handle_upload_error: the if/elif chain over the captured text
handle_upload_error(error_output, pp, toml_ok) ==
    IF Contains(error_output, FILE_ALREADY_EXISTS)
    THEN LET h == show_version_conflict_help(pp, toml_ok)
         IN  [class |-> "version-conflict", exits |-> h.exits, code |-> h.code,
              version_line |-> h.version_line, raw |-> NoText,
              read_version |-> TRUE]
    ELSE IF Contains(Lower(error_output), INVALID_CLASSIFIER)
    THEN [class |-> "invalid-metadata-field", exits |-> TRUE, code |-> 1,
          version_line |-> <<>>, raw |-> NoText, read_version |-> FALSE]
    ELSE IF Contains(Lower(error_output), REQUIRED_METADATA)
    THEN [class |-> "missing-required-metadata", exits |-> TRUE, code |-> 1,
          version_line |-> <<>>, raw |-> NoText, read_version |-> FALSE]
    ELSE [class |-> "unknown", exits |-> TRUE, code |-> 1,
          version_line |-> <<>>, raw |-> error_output, read_version |-> FALSE]

\* e.stderr or e.stdout or "Unknown error occurred"
captured_error(stderr, stdout) ==
    IF stderr # <<>> THEN stderr
    ELSE IF stdout # <<>> THEN stdout
    ELSE UNKNOWN_ERROR

(* ------------------------------- state --------------------------------- *)

VARIABLES
    pc,             \* where main is: the next step it will execute
    exit_code,      \* the process exit status, -1 while the process runs
    pypirc_exists,  \* ./.pypirc exists
    gitignore,      \* ./.gitignore: [exists, content]
    gitignore0,     \* ./.gitignore as it was before the run
    dist,           \* ./dist: [kind, files]
    dist0,          \* ./dist as it was before the run
    pyproject,      \* <<./pyproject.toml>> when the version is looked up, <<>> before
    toml_import,    \* outcome of "import toml" in get_current_version
    pypirc_path,    \* main's pypirc_path: None or the absolute path
    repository,     \* main's repository, None before the menu
    answers,        \* what the operator typed at each prompt
    calls,          \* how often each subprocess / step was invoked
    results,        \* outcome of each subprocess call site
    error_output,   \* upload_to_pypi's error_output
    error_class,    \* the branch handle_upload_error took
    version_line,   \* the "Current version: ..." line printed, <<>> if none
    output          \* the kinds of message printed so far

vars == <<pc, exit_code, pypirc_exists, gitignore, gitignore0, dist, dist0,
          pyproject, toml_import, pypirc_path, repository, answers, calls,
          results, error_output, error_class, version_line, output>>

Prompts == {"proceed", "choice", "confirm"}
Steps == {"pip", "twine_check", "clean", "build", "twine_upload"}
Sites == {"pip", "auth_main", "build", "auth_upload", "upload"}

Init ==
    /\ pc = "check_deps"
    /\ exit_code = -1
    /\ pypirc_exists \in BOOLEAN
    \* .gitignore is read only by create_local_pypirc, which runs only if
    \* there is no .pypirc: with a .pypirc one ignore file stands for all
    /\ gitignore \in IF pypirc_exists
                    THEN { [exists |-> TRUE, content |-> PYPIRC \o NL] }
                    ELSE Gitignores
    /\ gitignore0 = gitignore
    /\ dist \in Dists
    /\ dist0 = dist
    /\ pyproject = <<>>
    /\ toml_import = "notrun"
    /\ pypirc_path = None
    /\ repository = None
    /\ answers = [p \in Prompts |-> Unasked]
    /\ calls = [s \in Steps |-> 0]
    /\ results = [s \in Sites |-> "notrun"]
    /\ error_output = NoText
    /\ error_class = None
    /\ version_line = <<>>
    /\ output = {}

files == <<pypirc_exists, gitignore, gitignore0, dist, dist0, pyproject,
           toml_import>>
upload_state == <<error_output, error_class, version_line>>

Outcome(ok) == IF ok THEN "ok" ELSE "failed"

\* sys.exit(code), or main returning (code 0)
Exit(code) ==
    /\ pc' = "done"
    /\ exit_code' = code

(* ------------------------------ main ----------------------------------- *)

\* main, lines 341-342: check_dependencies, exit 1 if it fails
CheckDependencies ==
    /\ pc = "check_deps"
    /\ \E importable \in BOOLEAN, pip_ok \in BOOLEAN :
         /\ calls' = IF importable THEN calls
                     ELSE [calls EXCEPT !["pip"] = @ + 1]
         /\ results' = IF importable THEN results
                       ELSE [results EXCEPT !["pip"] = Outcome(pip_ok)]
         /\ IF check_dependencies(importable, pip_ok)
            THEN /\ pc' = "pypirc"
                 /\ UNCHANGED <<exit_code, output>>
            ELSE /\ Exit(1)
                 /\ output' = output \cup {"manual_install"}
    /\ UNCHANGED <<files, pypirc_path, repository, answers, upload_state>>

\* main, lines 348-353: a local .pypirc exists, ask whether to use it
UseLocalPrompt ==
    /\ pc = "pypirc"
    /\ pypirc_exists
    /\ \E use_local \in Answers :
         /\ pypirc_path' = IF IsYes(use_local) THEN LOCAL_PYPIRC ELSE None
    /\ output' = output \cup {"asked_use_local"}
    /\ pc' = "auth"
    /\ UNCHANGED <<exit_code, files, repository, answers, calls, results,
                   upload_state>>

\* main, lines 354-359: no local .pypirc, offer create_local_pypirc
CreateNewPrompt ==
    /\ pc = "pypirc"
    /\ ~pypirc_exists
    /\ \E create_new \in Answers, opener_raises \in BOOLEAN :
         /\ IF IsYes(create_new)
            THEN /\ pypirc_exists' = TRUE
                 /\ gitignore' = update_gitignore(gitignore)
                 /\ pypirc_path' = LOCAL_PYPIRC
                 /\ output' = output \cup {"asked_create_new", "created_pypirc"}
                        \cup (IF opener_raises THEN {"edit_manually"} ELSE {})
            ELSE /\ output' = output \cup {"asked_create_new"}
                 /\ UNCHANGED <<pypirc_exists, gitignore, pypirc_path>>
    /\ pc' = "auth"
    /\ UNCHANGED <<exit_code, gitignore0, dist, dist0, pyproject,
                   toml_import, repository, answers, calls, results,
                   upload_state>>

\* main, lines 361-370: the authentication probe when no .pypirc is in use
AuthCheck ==
    /\ pc = "auth"
    /\ IF pypirc_path # None
       THEN /\ pc' = "choose"
            /\ UNCHANGED <<exit_code, answers, calls, results, output>>
       ELSE \E probe_ok \in BOOLEAN, proceed \in Answers :
              /\ calls' = [calls EXCEPT !["twine_check"] = @ + 1]
              /\ results' = [results EXCEPT !["auth_main"] = Outcome(probe_ok)]
              /\ IF probe_ok
                 THEN /\ pc' = "choose"
                      /\ UNCHANGED <<exit_code, answers, output>>
                 ELSE /\ answers' = [answers EXCEPT !["proceed"] = proceed]
                      /\ IF ~IsYes(proceed)
                         THEN /\ output' = output \cup
                                     {"not_authenticated", "auth_instructions"}
                              /\ IF show_auth_instructions.exits
                                 THEN Exit(show_auth_instructions.code)
                                 ELSE Exit(0)
                         ELSE /\ pc' = "choose"
                              /\ output' = output \cup {"not_authenticated"}
                              /\ UNCHANGED exit_code
    /\ UNCHANGED <<files, pypirc_path, repository, upload_state>>

\* main, lines 372-386: the menu and the confirmation for the public index
ChooseRepository ==
    /\ pc = "choose"
    /\ \E choice \in Choices, confirm \in Answers :
         /\ repository' = resolve_repository(choice)
         /\ IF repository' = "pypi"
            THEN /\ answers' = [answers EXCEPT !["choice"] = choice,
                                               !["confirm"] = confirm]
                 /\ IF ~IsYes(confirm)
                    THEN /\ output' = output \cup {"operation_cancelled"}
                         /\ Exit(0)
                    ELSE /\ pc' = "clean"
                         /\ UNCHANGED <<exit_code, output>>
            ELSE /\ answers' = [answers EXCEPT !["choice"] = choice]
                 /\ pc' = "clean"
                 /\ UNCHANGED <<exit_code, output>>
    /\ UNCHANGED <<files, pypirc_path, calls, results, upload_state>>

\* main, line 389: clean_dist_directory
CleanDist ==
    /\ pc = "clean"
    /\ calls' = [calls EXCEPT !["clean"] = @ + 1]
    /\ LET r == clean_dist_directory(dist)
       IN  /\ dist' = r.dist
           /\ IF r.raised
              THEN /\ Exit(1)
                   /\ output' = output \cup {"traceback"}
              ELSE /\ pc' = "build"
                   /\ UNCHANGED <<exit_code, output>>
    /\ UNCHANGED <<pypirc_exists, gitignore, gitignore0, dist0, pyproject,
                   toml_import, pypirc_path, repository, answers, results,
                   upload_state>>

\* main, lines 392-393: build_package, exit 1 if it fails
BuildPackage ==
    /\ pc = "build"
    /\ \E build_ok \in BOOLEAN :
         /\ calls' = [calls EXCEPT !["build"] = @ + 1]
         /\ results' = [results EXCEPT !["build"] = Outcome(build_ok)]
         /\ IF build_ok
            THEN /\ dist' = [dist EXCEPT !.files = @ \cup NewArtifacts]
                 /\ pc' = "upload_auth"
                 /\ UNCHANGED exit_code
            ELSE /\ Exit(1)
                 /\ UNCHANGED dist
    /\ UNCHANGED <<pypirc_exists, gitignore, gitignore0, dist0, pyproject,
                   toml_import, pypirc_path, repository, answers,
                   upload_state, output>>

\* upload_to_pypi, lines 285-287: the authentication probe before the upload
UploadAuth ==
    /\ pc = "upload_auth"
    /\ \E probe_ok \in BOOLEAN :
         /\ calls' = [calls EXCEPT !["twine_check"] = @ + 1]
         /\ results' = [results EXCEPT !["auth_upload"] = Outcome(probe_ok)]
         /\ IF probe_ok
            THEN /\ pc' = "upload"
                 /\ UNCHANGED <<exit_code, output>>
            ELSE /\ output' = output \cup {"auth_instructions"}
                 /\ IF show_auth_instructions.exits
                    THEN Exit(show_auth_instructions.code)
                    ELSE /\ pc' = "upload"
                         /\ UNCHANGED exit_code
    /\ UNCHANGED <<files, pypirc_path, repository, answers, upload_state>>

\* the outcomes of "import toml" and the pyproject.toml files to consider for
\* a captured output: all of them if handle_upload_error looks the version up
VersionInputs(captured) ==
    IF handle_upload_error(captured_error(captured[1], captured[2]),
                           NoPyproject, FALSE).read_version
    THEN <<BOOLEAN, Pyprojects>>
    ELSE <<{FALSE}, {NoPyproject}>>

\* if not upload_to_pypi(...): sys.exit(1); otherwise main returns
MainAfterUpload(returned) ==
    IF returned = "True" THEN Exit(0) ELSE Exit(1)

\* upload_to_pypi, lines 289-323, and main, lines 396-397
Upload ==
    /\ pc = "upload"
    /\ calls' = [calls EXCEPT !["twine_upload"] = @ + 1]
    /\ \/ /\ results' = [results EXCEPT !["upload"] = "ok"]
          /\ output' = output \cup {"uploaded"}
          /\ UNCHANGED <<upload_state, pyproject, toml_import>>
          \* the try block has no return statement: the function returns None
          /\ MainAfterUpload(None)
       \/ \E captured \in CapturedOutputs :
          \* the toml module and pyproject.toml are inputs only of the
          \* branch that looks the version up
          \E toml_ok \in VersionInputs(captured)[1],
             pp \in VersionInputs(captured)[2] :
          \E h \in { handle_upload_error(
                         captured_error(captured[1], captured[2]),
                         pp, toml_ok) } :
            /\ results' = [results EXCEPT !["upload"] = "failed"]
            /\ error_output' = captured_error(captured[1], captured[2])
            /\ error_class' = h.class
            /\ version_line' = h.version_line
            /\ toml_import' = IF h.read_version
                              THEN Outcome(toml_ok) ELSE toml_import
            /\ pyproject' = IF h.read_version THEN <<pp>> ELSE pyproject
            /\ IF h.exits
               THEN /\ Exit(h.code)
                    /\ output' = output \cup
                           (IF h.raw # NoText THEN {"raw_error"} ELSE {})
               ELSE /\ output' = output \cup {"install_instructions"} \cup
                           (IF h.raw # NoText THEN {"raw_error"} ELSE {})
                    /\ MainAfterUpload("True")
    /\ UNCHANGED <<pypirc_exists, gitignore, gitignore0, dist, dist0,
                   pypirc_path, repository, answers>>

Next ==
    \/ CheckDependencies
    \/ UseLocalPrompt
    \/ CreateNewPrompt
    \/ AuthCheck
    \/ ChooseRepository
    \/ CleanDist
    \/ BuildPackage
    \/ UploadAuth
    \/ Upload

Spec == Init /\ [][Next]_vars

(* ------------------------------ properties ----------------------------- *)

Classes == {"version-conflict", "invalid-metadata-field",
            "missing-required-metadata", "unknown"}

YesAnswers == { <<"y">>, <<"Y">> }

\* number of lines of an ignore file that are exactly the entry .pypirc
EntryCount(content) ==
    Cardinality({ i \in 1..Len(Lines(content)) : Lines(content)[i] = PYPIRC })

\* the text contains the pattern in some mix of upper and lower case
ContainsAnyCase(text, pattern) ==
    \E i \in 0..(Len(text) - Len(pattern)) :
        \A j \in 1..Len(pattern) :
            \/ text[i + j] = pattern[j]
            \/ text[i + j] \in DOMAIN LowerOf /\ LowerOf[text[i + j]] = pattern[j]

\* C1: a run in which the dependency check passed, the prompts led to the
\* upload step, the build and the authentication probe succeeded and the
\* upload subprocess exited successfully terminates with exit code 0.
C1_SuccessExitsZero ==
    (pc = "done" /\ results["upload"] = "ok") => exit_code = 0

\* C2: with no credentials file in use, a failed authentication probe and an
\* answer other than y to "proceed anyway", the process exits with code 0 and
\* neither the clean step nor the build nor the upload is invoked.
C2_DeclinedProceedExitsZero ==
    ( /\ pypirc_path = None
      /\ results["auth_main"] = "failed"
      /\ answers["proceed"] # Unasked
      /\ answers["proceed"] \notin YesAnswers )
    => ( /\ pc = "done"
         /\ exit_code = 0
         /\ calls["clean"] = 0
         /\ calls["build"] = 0
         /\ calls["twine_upload"] = 0 )

\* C3: menu answer "1" resolves to the test index and every other answer to
\* the production index; for the production index clean, build and upload are
\* invoked only after the confirmation was answered y or Y, any other answer
\* ends the run with exit code 0 and "Operation cancelled" before any of
\* them; for the test index no confirmation is asked.
C3_TargetSelection ==
    /\ (answers["choice"] = Unasked) <=> (repository = None)
    /\ answers["choice"] # Unasked =>
         repository = (IF answers["choice"] = <<"1">> THEN "testpypi" ELSE "pypi")
    /\ repository = "testpypi" =>
         /\ answers["confirm"] = Unasked
         /\ "operation_cancelled" \notin output
    /\ (repository = "pypi" /\ answers["confirm"] \in YesAnswers) =>
         "operation_cancelled" \notin output
    /\ (repository = "pypi" /\ answers["confirm"] \notin YesAnswers) =>
         /\ pc = "done"
         /\ exit_code = 0
         /\ "operation_cancelled" \in output
         /\ calls["clean"] = 0
         /\ calls["build"] = 0
         /\ calls["twine_upload"] = 0
    /\ repository = None =>
         /\ calls["clean"] = 0
         /\ calls["build"] = 0
         /\ calls["twine_upload"] = 0

C3_Witness ==
    /\ repository = "pypi"
    /\ answers["choice"] = <<"x">>
    /\ answers["confirm"] = <<"Y">>
    /\ calls["twine_upload"] = 1

\* C4: the captured error text is classified by ordered match: version-
\* conflict whenever it contains "File already exists" (case-sensitive),
\* whatever else it contains; otherwise invalid-metadata-field if it contains
\* "invalid classifier" in any case; otherwise missing-required-metadata if it
\* contains "required metadata" in any case; otherwise unknown, and then (and
\* only then) the raw text is printed.  Exactly one class is chosen.
C4_OrderedClassification ==
    results["upload"] = "failed" =>
        LET fae == Contains(error_output, FILE_ALREADY_EXISTS)
            inv == ContainsAnyCase(error_output, INVALID_CLASSIFIER)
            req == ContainsAnyCase(error_output, REQUIRED_METADATA)
        IN  /\ error_class \in Classes
            /\ (error_class = "version-conflict") <=> fae
            /\ (error_class = "invalid-metadata-field") <=> (~fae /\ inv)
            /\ (error_class = "missing-required-metadata") <=>
                   (~fae /\ ~inv /\ req)
            /\ (error_class = "unknown") <=> (~fae /\ ~inv /\ ~req)
            /\ ("raw_error" \in output) <=> (error_class = "unknown")

C4_Witness ==
    /\ error_class = "version-conflict"
    /\ ContainsAnyCase(error_output, INVALID_CLASSIFIER)

\* C5: at the moment the build subprocess is invoked, dist exists and is an
\* empty directory, whatever it was before the run.
C5_DistEmptyBeforeBuild ==
    pc = "build" => dist = EmptyDir

C5_Witness ==
    /\ pc = "build"
    /\ dist0.kind = "dir"
    /\ dist0.files # {}
    /\ dist = EmptyDir

\* C6: after create_local_pypirc the ignore file is unchanged if it already
\* had the entry .pypirc, has the entry appended exactly once on its own line
\* if it existed without it, and consists of exactly that entry if it did not
\* exist.
C6_IgnoreEntryEnsured ==
    "created_pypirc" \in output =>
        /\ gitignore.exists
        /\ (gitignore0.exists /\ EntryCount(gitignore0.content) > 0) =>
               gitignore = gitignore0
        /\ (gitignore0.exists /\ EntryCount(gitignore0.content) = 0) =>
               /\ EntryCount(gitignore.content) = 1
               /\ Len(gitignore.content) > Len(gitignore0.content)
               /\ SubSeq(gitignore.content, 1, Len(gitignore0.content))
                      = gitignore0.content
        /\ ~gitignore0.exists => gitignore.content = PYPIRC \o NL

C8_ProceedAnywayReachesUpload ==
    ( /\ results["auth_main"] = "failed"
      /\ answers["proceed"] \in YesAnswers )
    => /\ (pc = "done" /\ results["build"] = "ok") => calls["twine_upload"] = 1
       /\ results["auth_upload"] = "failed" => pc # "done"

\* C9 as stated: whenever pyproject.toml exists and has a version under
\* [project], the version-conflict handler prints "Current version: <version>"
\* with exactly that version, for every version and every environment.
C9_VersionAlwaysReported ==
    ( /\ error_class = "version-conflict"
      /\ pyproject # <<>>
      /\ pyproject[1].exists
      /\ pyproject[1].has_version )
    => version_line = <<"Current version: ", pyproject[1].version>>

\* C9 amended: whenever pyproject.toml exists and has a non-empty version
\* under [project] and the toml module can be imported, the version-conflict
\* handler prints "Current version: <version>" with exactly that version;
\* when the toml module cannot be imported or the version is empty it prints
\* no version line.
C9_VersionReportedWhenReadable ==
    ( /\ error_class = "version-conflict"
      /\ pyproject # <<>>
      /\ pyproject[1].exists
      /\ pyproject[1].has_version )
    => IF toml_import = "ok" /\ pyproject[1].version # ""
       THEN version_line = <<"Current version: ", pyproject[1].version>>
       ELSE version_line = <<>>

C9_Witness ==
    /\ error_class = "version-conflict"
    /\ toml_import = "ok"
    /\ pyproject = << [exists |-> TRUE, has_version |-> TRUE,
                       version |-> "2.3.4", name |-> "pkg"] >>
    /\ version_line = <<"Current version: ", "2.3.4">>

\* C10 as stated: after a failed upload classified version-conflict or
\* unknown the post-upload install instructions are printed, whereas for the
\* two other classes the process exits non-zero without printing them.
C10_InstructionsAfterFailure ==
    results["upload"] = "failed" =>
        /\ error_class \in {"version-conflict", "unknown"} =>
               "install_instructions" \in output
        /\ error_class \in {"invalid-metadata-field",
                            "missing-required-metadata"} =>
               /\ exit_code # 0
               /\ "install_instructions" \notin output

\* C10 amended: after a failed upload the process exits with code 1 without
\* printing the post-upload install instructions, for every classification
\* (version-conflict and unknown included).
C10_NoInstructionsAfterFailure ==
    results["upload"] = "failed" =>
        /\ pc = "done"
        /\ exit_code = 1
        /\ "install_instructions" \notin output

C10_Witness ==
    /\ results["upload"] = "failed"
    /\ error_class = "version-conflict"
    /\ pc = "done"
    /\ "install_instructions" \notin output

====
